---- MODULE Spec2Model ----
(***************************************************************************)
(* Model of the presence-aware event relay (the socket.io + express       *)
(* service of src/unnamed/part_000): the connectedUsers registry, the     *)
(* handshake middleware, the connection handler with its disconnect and   *)
(* check-online listeners, and the POST /emit and GET /health routes.     *)
(*                                                                         *)
(* JavaScript values are modelled by strings: Undefined stands for the    *)
(* value undefined (a missing query parameter, header or body field), ""  *)
(* for the empty string.  Booleans that may be missing from a response    *)
(* are the strings "true", "false" and Undefined.  Timestamps, request    *)
(* ids and log lines are not modelled.                                    *)
(***************************************************************************)
EXTENDS Integers, Sequences, FiniteSets, TLC

\* ---------------------------------------------------------------- bounds
MaxConns == 2
MaxRelayed == 1

\* ------------------------------------------------------- program values
Undefined == "undefined"
SOCKET_KEY == "secret"

Users == {"u1", "u2"}
UserIdInputs == Users \cup {"", Undefined}
KeyInputs == {SOCKET_KEY, "wrong", Undefined}
BodyUserIdInputs == Users \cup {Undefined}
EventTypeInputs == {"ping", "disconnect", Undefined}
PayloadInputs == {"obj1", "obj2", "zero", Undefined}
RESERVED_EVENTS == {"connect", "connect_error", "disconnect", "disconnecting", "newListener", "removeListener"}

\* JavaScript truthiness of the modelled values: undefined, "" and 0 are falsy
Falsy(x) == x \in {Undefined, "", "zero"}

SocketIds == 1..MaxConns
NoSocket == 0

VARIABLES connectedUsers, sockets, rooms, received, nextId, serverClosing, req, res

vars == <<connectedUsers, sockets, rooms, received, nextId, serverClosing, req, res>>

\* ------------------------------------------------- Map (connectedUsers)
\* A JavaScript Map is an insertion-ordered list of [key, value] entries.
RECURSIVE MapIndex(_, _, _)
MapIndex(m, k, i) ==
  IF i > Len(m) THEN 0
  ELSE IF m[i][1] = k THEN i
  ELSE MapIndex(m, k, i + 1)

MapHas(m, k) == MapIndex(m, k, 1) # 0

MapGet(m, k) == IF MapIndex(m, k, 1) = 0 THEN NoSocket ELSE m[MapIndex(m, k, 1)][2]

\* mutant: set() that always adds an entry
MapSet_Append(m, k, v) == Append(m, <<k, v>>)

MapSet(m, k, v) ==
  IF MapIndex(m, k, 1) = 0 THEN Append(m, <<k, v>>)
  ELSE [m EXCEPT ![MapIndex(m, k, 1)] = <<k, v>>]

\* mutant: delete() that empties the map (clear() in its place)
MapDelete_Clear(m, k) == <<>>

MapDelete(m, k) ==
  IF MapIndex(m, k, 1) = 0 THEN m
  ELSE SubSeq(m, 1, MapIndex(m, k, 1) - 1) \o SubSeq(m, MapIndex(m, k, 1) + 1, Len(m))

MapSize(m) == Len(m)

MapKeys(m) == {m[i][1] : i \in 1..Len(m)}

\* ------------------------------------------------------------- records
NoReq == [op |-> "none", socketId |-> NoSocket, userId |-> Undefined, key |-> Undefined,
          eventType |-> Undefined, payload |-> Undefined, data |-> Undefined,
          targetUserId |-> Undefined, callback |-> "false"]

NoRes == [status |-> 0, success |-> Undefined, isOnline |-> Undefined, error |-> Undefined,
          socketId |-> NoSocket, connections |-> 0, threw |-> "false"]

connectionAck(userId) == [name |-> "connection", payload |-> <<"success", userId>>]

RelayEvent(eventType, payload) == [name |-> eventType, payload |-> <<payload>>]

Init ==
  /\ connectedUsers = <<>>
  /\ sockets = [c \in SocketIds |-> [state |-> "none", userId |-> Undefined]]
  /\ rooms = [u \in Users |-> {}]
  /\ received = [c \in SocketIds |-> <<>>]
  /\ nextId = 1
  /\ serverClosing = FALSE
  /\ req = NoReq
  /\ res = NoRes

\* The handlers run to completion one at a time on the event loop: req and res
\* hold the request being answered and its answer until the turn ends.
Idle == req.op = "none"

\* The turn ends: the answer has left the server.
EndTurn ==
  /\ ~Idle
  /\ req' = NoReq
  /\ res' = NoRes
  /\ UNCHANGED <<connectedUsers, sockets, rooms, received, nextId, serverClosing>>

\* ------------------------------------------------ handshake middleware
\* mutant: the middleware without its socketKey check
HandshakeError_NoKeyCheck(userId, socketKey) ==
  IF Falsy(userId) THEN "Se requiere userId" ELSE ""

\* The error the middleware passes to next(), "" when it calls next() bare.
\* ("Clave de socket invalida" is the source's message without its accent.)
HandshakeError(userId, socketKey) ==
  IF Falsy(userId) THEN "Se requiere userId"
  ELSE IF socketKey # SOCKET_KEY THEN "Clave de socket invalida"
  ELSE ""

\* mutant: the middleware keeps the entry of a user who is already registered
MiddlewareRegistry_FirstWins(m, id, userId, socketKey) ==
  IF HandshakeError(userId, socketKey) = "" /\ ~MapHas(m, userId) THEN MapSet(m, userId, id) ELSE m

\* connectedUsers after the middleware ran for socket id with this query
MiddlewareRegistry(m, id, userId, socketKey) ==
  IF HandshakeError(userId, socketKey) = "" THEN MapSet(m, userId, id) ELSE m

\* socket.join(userId) of the middleware
MiddlewareRooms(r, id, userId, socketKey) ==
  IF HandshakeError(userId, socketKey) = "" THEN [r EXCEPT ![userId] = @ \cup {id}] ELSE r

HandshakeReq(id, userId, socketKey) ==
  [NoReq EXCEPT !.op = "handshake", !.socketId = id, !.userId = userId, !.key = socketKey]

\* A client connects and its transport stays open: the middleware runs and,
\* when it calls next() without an error, the connection handler runs in the
\* same turn of the event loop (the middleware is synchronous): it sends the
\* acknowledgment and registers the disconnect and check-online listeners.
\* A refused socket is discarded, so its id is not recorded.
Connect(userId, socketKey) ==
  /\ Idle
  /\ ~serverClosing
  /\ nextId <= MaxConns
  /\ connectedUsers' = MiddlewareRegistry(connectedUsers, nextId, userId, socketKey)
  /\ rooms' = MiddlewareRooms(rooms, nextId, userId, socketKey)
  /\ IF HandshakeError(userId, socketKey) = ""
     THEN /\ sockets' = [sockets EXCEPT ![nextId] = [state |-> "connected", userId |-> userId]]
          /\ received' = [received EXCEPT ![nextId] = Append(@, connectionAck(userId))]
     ELSE UNCHANGED <<sockets, received>>
  /\ req' = HandshakeReq(nextId, userId, socketKey)
  /\ res' = [NoRes EXCEPT !.error = HandshakeError(userId, socketKey)]
  /\ nextId' = IF HandshakeError(userId, socketKey) = "" THEN nextId + 1 ELSE nextId
  /\ UNCHANGED serverClosing

\* A client whose transport is already closed when the middleware's next() is
\* acted upon: the middleware has run (registry entry, room), but the server
\* drops the socket (it leaves its rooms) and the connection handler never
\* runs, so no acknowledgment is sent and no disconnect listener exists.
ConnectAborted(userId, socketKey) ==
  /\ Idle
  /\ ~serverClosing
  /\ nextId <= MaxConns
  /\ HandshakeError(userId, socketKey) = ""
  /\ connectedUsers' = MiddlewareRegistry(connectedUsers, nextId, userId, socketKey)
  /\ rooms' = [u \in Users |-> MiddlewareRooms(rooms, nextId, userId, socketKey)[u] \ {nextId}]
  /\ sockets' = [sockets EXCEPT ![nextId] = [state |-> "aborted", userId |-> userId]]
  /\ req' = [HandshakeReq(nextId, userId, socketKey) EXCEPT !.op = "handshake-aborted"]
  /\ res' = NoRes
  /\ nextId' = nextId + 1
  /\ UNCHANGED <<received, serverClosing>>

\* ------------------------------------------------------------ disconnect
\* The 'disconnect' listener of a connected socket; the socket has left its
\* rooms when the listener runs.
\* mutant: the listener deletes under a key that is no userId
DisconnectRegistry_WrongKey(m, userId) == MapDelete(m, Undefined)

\* mutant: the listener stores an empty reference where it should delete
DisconnectRegistry_SetNull(m, userId) == MapSet(m, userId, NoSocket)

DisconnectRegistry(m, userId) == MapDelete(m, userId)

Disconnect(id) ==
  /\ Idle
  /\ sockets[id].state = "connected"
  /\ connectedUsers' = DisconnectRegistry(connectedUsers, sockets[id].userId)
  /\ rooms' = [u \in Users |-> rooms[u] \ {id}]
  /\ sockets' = [sockets EXCEPT ![id].state = "disconnected"]
  /\ req' = [NoReq EXCEPT !.op = "disconnect", !.socketId = id, !.userId = sockets[id].userId]
  /\ res' = NoRes
  /\ UNCHANGED <<received, nextId, serverClosing>>

\* ----------------------------------------------------------- check-online
\* "function": the client sent only an acknowledgment function, which then
\* arrives as the listener's first argument and leaves callback undefined.
DataInputs == {Undefined, "string", "function", "object"}
TargetInputs == Users \cup {"", Undefined}
BoolStr(b) == IF b THEN "true" ELSE "false"

\* The Error thrown inside the listener's try block, "" when none is thrown
\* before the callback is called.
CheckOnlineError(data, targetUserId) ==
  IF data = Undefined \/ data # "object" THEN "Datos de solicitud invalidos"
  ELSE IF Falsy(targetUserId) THEN "Se requiere targetUserId"
  ELSE ""

\* mutant: the listener answers whether anyone at all is registered
CheckOnlineResponse_AnyUser(m, data, targetUserId) ==
  IF CheckOnlineError(data, targetUserId) = ""
  THEN [NoRes EXCEPT !.success = "true", !.isOnline = BoolStr(MapSize(m) > 0)]
  ELSE [NoRes EXCEPT !.success = "false", !.error = CheckOnlineError(data, targetUserId)]

\* What the listener passes to callback
CheckOnlineResponse(m, data, targetUserId) ==
  IF CheckOnlineError(data, targetUserId) = ""
  THEN [NoRes EXCEPT !.success = "true", !.isOnline = BoolStr(MapHas(m, targetUserId))]
  ELSE [NoRes EXCEPT !.success = "false", !.error = CheckOnlineError(data, targetUserId)]

\* callback = "false": the client sent no acknowledgment function, so the
\* call of callback throws a TypeError, in the try block and again in the
\* catch block; the second one leaves the listener and reaches the process's
\* uncaughtException handler, which closes the HTTP server.
CheckOnline(id, data, targetUserId, callback) ==
  /\ Idle
  /\ sockets[id].state = "connected"
  /\ (data # "object" => targetUserId = Undefined)
  /\ (data = "function" => callback = "false")
  /\ req' = [NoReq EXCEPT !.op = "check-online", !.socketId = id, !.userId = sockets[id].userId,
                          !.data = data, !.targetUserId = targetUserId, !.callback = callback]
  /\ IF callback = "true"
     THEN /\ res' = CheckOnlineResponse(connectedUsers, data, targetUserId)
          /\ UNCHANGED serverClosing
     ELSE /\ res' = [NoRes EXCEPT !.threw = "true"]
          /\ serverClosing' = TRUE
  /\ UNCHANGED <<connectedUsers, sockets, rooms, received, nextId>>

\* -------------------------------------------------------------- POST /emit
\* mutant: the route validates the body before it checks the key
EmitStatus_BodyFirst(m, internalKey, userId, eventType, payload) ==
  IF Falsy(userId) \/ Falsy(eventType) \/ Falsy(payload) THEN 400
  ELSE IF internalKey # SOCKET_KEY THEN 403
  ELSE IF ~MapHas(m, userId) \/ MapGet(m, userId) = NoSocket THEN 404
  ELSE IF eventType \in RESERVED_EVENTS THEN 500
  ELSE 200

\* mutant: the route emits without looking the user up
EmitStatus_NoLookup(m, internalKey, userId, eventType, payload) ==
  IF internalKey # SOCKET_KEY THEN 403
  ELSE IF Falsy(userId) \/ Falsy(eventType) \/ Falsy(payload) THEN 400
  ELSE IF eventType \in RESERVED_EVENTS THEN 500
  ELSE 200

\* The HTTP status the route answers with.
EmitStatus(m, internalKey, userId, eventType, payload) ==
  IF internalKey # SOCKET_KEY THEN 403
  ELSE IF Falsy(userId) \/ Falsy(eventType) \/ Falsy(payload) THEN 400
  ELSE IF ~MapHas(m, userId) \/ MapGet(m, userId) = NoSocket THEN 404
  ELSE IF eventType \in RESERVED_EVENTS THEN 500
  ELSE 200

EmitError(status) ==
  IF status = 403 THEN "Acceso no autorizado"
  ELSE IF status = 400 THEN "Datos incompletos. Se requieren: userId, eventType y payload"
  ELSE IF status = 404 THEN "Usuario no conectado"
  ELSE IF status = 500 THEN "Error interno del servidor"
  ELSE Undefined

EmitResponse(m, internalKey, userId, eventType, payload) ==
  LET status == EmitStatus(m, internalKey, userId, eventType, payload) IN
  [NoRes EXCEPT !.status = status,
                !.success = BoolStr(status = 200),
                !.error = EmitError(status),
                !.socketId = IF status = 200 THEN MapGet(m, userId) ELSE NoSocket,
                !.connections = IF status = 404 THEN MapSize(m) ELSE 0]

\* mutant: the route emits to the registered socket alone, not to the room
EmitTargets_RegisteredOnly(m, r, internalKey, userId, eventType, payload) ==
  IF EmitStatus(m, internalKey, userId, eventType, payload) = 200
  THEN r[userId] \cap {MapGet(m, userId)}
  ELSE {}

\* io.to(userId).emit(eventType, payload): the sockets the event goes to
EmitTargets(m, r, internalKey, userId, eventType, payload) ==
  IF EmitStatus(m, internalKey, userId, eventType, payload) = 200 THEN r[userId] ELSE {}

\* The number of relayed events sent so far to the sockets 1..n
RECURSIVE Relayed(_, _)
Relayed(rcv, n) ==
  IF n = 0 THEN 0
  ELSE Relayed(rcv, n - 1) + Len(SelectSeq(rcv[n], LAMBDA ev : ev.name # "connection"))

Emit(internalKey, userId, eventType, payload) ==
  /\ Idle
  /\ ~serverClosing
  /\ EmitTargets(connectedUsers, rooms, internalKey, userId, eventType, payload) # {}
        => Relayed(received, MaxConns) < MaxRelayed
  /\ received' = [c \in SocketIds |->
        IF c \in EmitTargets(connectedUsers, rooms, internalKey, userId, eventType, payload)
        THEN Append(received[c], RelayEvent(eventType, payload))
        ELSE received[c]]
  /\ req' = [NoReq EXCEPT !.op = "emit", !.key = internalKey, !.userId = userId,
                          !.eventType = eventType, !.payload = payload]
  /\ res' = EmitResponse(connectedUsers, internalKey, userId, eventType, payload)
  /\ UNCHANGED <<connectedUsers, sockets, rooms, nextId, serverClosing>>

\* ------------------------------------------------------------- GET /health
Health ==
  /\ Idle
  /\ ~serverClosing
  /\ req' = [NoReq EXCEPT !.op = "health"]
  /\ res' = [NoRes EXCEPT !.status = 200, !.connections = MapSize(connectedUsers)]
  /\ UNCHANGED <<connectedUsers, sockets, rooms, received, nextId, serverClosing>>

\* ---------------------------------------------------------- specification
Next ==
  \/ \E userId \in UserIdInputs, socketKey \in KeyInputs : Connect(userId, socketKey)
  \/ \E userId \in UserIdInputs, socketKey \in KeyInputs : ConnectAborted(userId, socketKey)
  \/ \E id \in SocketIds : Disconnect(id)
  \/ \E id \in SocketIds, data \in DataInputs, targetUserId \in TargetInputs, callback \in {"true", "false"} :
        CheckOnline(id, data, targetUserId, callback)
  \/ \E internalKey \in KeyInputs, userId \in BodyUserIdInputs, eventType \in EventTypeInputs, payload \in PayloadInputs :
        Emit(internalKey, userId, eventType, payload)
  \/ Health
  \/ EndTurn

Spec == Init /\ [][Next]_vars

\* ================================================================== claims
\* The handshake in req passed both checks of the middleware's contract.
PassesHandshake(r) ==
  /\ r.op \in {"handshake", "handshake-aborted"}
  /\ ~Falsy(r.userId)
  /\ r.key = SOCKET_KEY

\* Registry.has / Registry.get read off the entries themselves
Has(m, userId) == \E i \in 1..Len(m) : m[i][1] = userId
Holds(m, userId, id) == \E i \in 1..Len(m) : m[i] = <<userId, id>>

\* C1: when a user's registry entry points at a newer, still open connection
\* c2, processing the disconnect of another (superseded) connection c1 of the
\* same user leaves the entry userId -> c2 in place.
C1_SupersededDisconnectKeepsCurrent ==
  [][\A c1, c2 \in SocketIds :
       ( /\ Idle
         /\ req'.op = "disconnect" /\ req'.socketId = c1
         /\ c1 # c2
         /\ sockets[c1].state = "connected"
         /\ sockets[c2].state = "connected"
         /\ sockets[c2].userId = sockets[c1].userId
         /\ Holds(connectedUsers, sockets[c1].userId, c2) )
       => Holds(connectedUsers', sockets[c1].userId, c2)]_vars

\* C2: in the state right after a handshake with a non-empty userId and the
\* shared secret, the registry has that userId and maps it to the new
\* socket's own id.
C2_AdmittedIsRegistered ==
  PassesHandshake(req) =>
    /\ Has(connectedUsers, req.userId)
    /\ Holds(connectedUsers, req.userId, req.socketId)
    /\ MapGet(connectedUsers, req.userId) = req.socketId

\* C2 witness: a second user has just been admitted next to a registered one.
C2_Witness ==
  /\ PassesHandshake(req)
  /\ Len(connectedUsers) = 2
  /\ MapGet(connectedUsers, req.userId) = req.socketId

\* C3: the registry never holds two entries for one user identifier, and
\* admitting a connection for a userId that is already registered leaves the
\* newer socket id as the only value reachable for that userId.
C3_AtMostOneEntry ==
  \A i, j \in 1..Len(connectedUsers) :
     connectedUsers[i][1] = connectedUsers[j][1] => i = j

C3_LastWriteWins ==
  /\ []C3_AtMostOneEntry
  /\ [][( /\ Idle
          /\ PassesHandshake(req')
          /\ Has(connectedUsers, req'.userId) )
        => ( /\ MapGet(connectedUsers', req'.userId) = req'.socketId
             /\ \A i \in 1..Len(connectedUsers') :
                  connectedUsers'[i][1] = req'.userId => connectedUsers'[i][2] = req'.socketId
             /\ Len(connectedUsers') = Len(connectedUsers) )]_vars

\* C3 witness: socket 2 was admitted for the user of the still open socket 1.
C3_Witness ==
  /\ PassesHandshake(req)
  /\ req.socketId = 2
  /\ sockets[1].state = "connected"
  /\ sockets[1].userId = req.userId
  /\ MapGet(connectedUsers, req.userId) = 2

\* C4: a handshake with a missing or empty userId, or with a credential other
\* than the shared secret, is refused with an error and changes neither the
\* registry nor the sockets, rooms or anything sent.
C4_RejectedHandshake ==
  [][( /\ Idle
       /\ req'.op \in {"handshake", "handshake-aborted"}
       /\ (Falsy(req'.userId) \/ req'.key # SOCKET_KEY) )
     => ( /\ res'.error \in {"Se requiere userId", "Clave de socket invalida"}
          /\ (Falsy(req'.userId) => res'.error = "Se requiere userId")
          /\ UNCHANGED <<connectedUsers, sockets, rooms, received>> )]_vars

\* C4 witness: a handshake claiming a registered userId with a wrong
\* credential was refused and the entry still points at the older socket.
C4_Witness ==
  /\ req.op = "handshake"
  /\ req.key # SOCKET_KEY
  /\ res.error = "Clave de socket invalida"
  /\ Has(connectedUsers, req.userId)
  /\ MapGet(connectedUsers, req.userId) # req.socketId

ValidRelay(r) ==
  /\ r.op = "emit"
  /\ r.key = SOCKET_KEY
  /\ r.userId \in Users
  /\ r.eventType = "ping"
  /\ r.payload \in {"obj1", "obj2"}

\* C6: a valid relay request for a userId that has a registry entry is
\* answered 200 with success true, and the socket the registry names for
\* that user is sent exactly one event, with the given name and payload.
C6_RelayDeliversToCurrent ==
  [][( /\ Idle
       /\ ValidRelay(req')
       /\ Has(connectedUsers, req'.userId) )
     => ( /\ res'.status = 200
          /\ res'.success = "true"
          /\ res'.socketId = MapGet(connectedUsers, req'.userId)
          /\ received'[MapGet(connectedUsers, req'.userId)]
               = Append(received[MapGet(connectedUsers, req'.userId)],
                        RelayEvent(req'.eventType, req'.payload)) )]_vars

\* What does hold of the relay: when the socket the registry names for the
\* user is connected, it is sent exactly one event with the given name and
\* payload, and the answer is 200 with that socket's id.
RelayDeliversToOpenSocket ==
  [][( /\ Idle
       /\ ValidRelay(req')
       /\ Has(connectedUsers, req'.userId)
       /\ sockets[MapGet(connectedUsers, req'.userId)].state = "connected" )
     => ( /\ res'.status = 200
          /\ res'.success = "true"
          /\ res'.socketId = MapGet(connectedUsers, req'.userId)
          /\ received'[MapGet(connectedUsers, req'.userId)]
               = Append(received[MapGet(connectedUsers, req'.userId)],
                        RelayEvent(req'.eventType, req'.payload)) )]_vars

C8_OnlyConnectionDisconnect ==
  [][\A id \in SocketIds :
       ( /\ Idle
         /\ req'.op = "disconnect" /\ req'.socketId = id
         /\ Holds(connectedUsers, sockets[id].userId, id)
         /\ \A c \in SocketIds \ {id} :
              ~(sockets[c].state = "connected" /\ sockets[c].userId = sockets[id].userId) )
       => ( /\ ~Has(connectedUsers', sockets[id].userId)
            /\ CheckOnlineResponse(connectedUsers', "object", sockets[id].userId).isOnline = "false" )]_vars

\* C8 witness: the only connection a user ever had has been disconnected and
\* the user has no entry, while another user still has one.
C8_Witness ==
  /\ req.op = "disconnect"
  /\ \A c \in SocketIds \ {req.socketId} : sockets[c].userId # req.userId
  /\ ~Has(connectedUsers, req.userId)
  /\ Len(connectedUsers) > 0

\* No socket was ever admitted under this user identifier.
NeverAdmitted(userId) == \A c \in SocketIds : sockets[c].userId # userId

\* C9: a presence query with a non-empty targetUserId leaves the registry as
\* it was, and the answer passed to the caller's callback has isOnline true
\* exactly when the registry has an entry for the target at that moment; for
\* a target that was never admitted it is false.
C9_PresenceQuery ==
  [][( /\ Idle
       /\ req'.op = "check-online"
       /\ req'.data = "object"
       /\ ~Falsy(req'.targetUserId) )
     => ( /\ connectedUsers' = connectedUsers
          /\ req'.callback = "true" =>
               /\ res'.success = "true"
               /\ res'.isOnline = (IF Has(connectedUsers, req'.targetUserId) THEN "true" ELSE "false")
               /\ NeverAdmitted(req'.targetUserId) => res'.isOnline = "false" )]_vars

\* C9 witness: one user asked about another and was told the other is not
\* online while the asker is registered.
C9_Witness ==
  /\ req.op = "check-online"
  /\ req.callback = "true"
  /\ req.targetUserId \in Users
  /\ req.targetUserId # req.userId
  /\ Has(connectedUsers, req.userId)
  /\ NeverAdmitted(req.targetUserId)
  /\ res.isOnline = "false"

\* C10: a presence query without data, with data that is no object, or with
\* a missing or empty targetUserId does not throw out of the listener and
\* does not bring the server down; the caller is answered isOnline false
\* with an error, and the registry is unchanged.
C10_MalformedPresenceQuery ==
  [][( /\ Idle
       /\ req'.op = "check-online"
       /\ (req'.data # "object" \/ Falsy(req'.targetUserId)) )
     => ( /\ res'.threw = "false"
          /\ serverClosing' = serverClosing
          /\ res'.isOnline = "false"
          /\ res'.error # Undefined
          /\ connectedUsers' = connectedUsers )]_vars

\* C11: a relay request with the right key is answered 400 exactly when one
\* of userId, eventType and payload is missing; a 400 sends no event and
\* leaves the registry unchanged, and a request whose three fields are
\* present is never answered 400, whatever value the payload has.
C11_BadRequestIffFieldMissing ==
  [][( /\ Idle
       /\ req'.op = "emit"
       /\ req'.key = SOCKET_KEY )
     => ( /\ res'.status = 400
            <=> (req'.userId = Undefined \/ req'.eventType = Undefined \/ req'.payload = Undefined)
          /\ res'.status = 400 => (received' = received /\ connectedUsers' = connectedUsers) )]_vars

\* What does hold of the validation: with the right key the answer is 400
\* exactly when one of the three fields is falsy (undefined, "", 0, ...),
\* and then nothing is sent and the registry is unchanged.
BadRequestIffFieldFalsy ==
  [][( /\ Idle
       /\ req'.op = "emit"
       /\ req'.key = SOCKET_KEY )
     => ( /\ res'.status = 400
            <=> (Falsy(req'.userId) \/ Falsy(req'.eventType) \/ Falsy(req'.payload))
          /\ res'.status = 400 => (received' = received /\ connectedUsers' = connectedUsers) )]_vars

\* C12: every mapping that appears in the registry in a step is the one an
\* admission of that step stored; relay requests, presence queries, the
\* health route and refused handshakes leave the registry as it was, and a
\* disconnect leaves only entries that were there before.
C12_OnlyAdmissionAddsMappings ==
  [][ /\ \A i \in 1..Len(connectedUsers') :
           \/ Holds(connectedUsers, connectedUsers'[i][1], connectedUsers'[i][2])
           \/ /\ Idle
              /\ PassesHandshake(req')
              /\ connectedUsers'[i] = <<req'.userId, req'.socketId>>
      /\ (Idle /\ req'.op \in {"emit", "check-online", "health"})
           => connectedUsers' = connectedUsers
      /\ (Idle /\ req'.op = "handshake" /\ ~PassesHandshake(req'))
           => connectedUsers' = connectedUsers
      /\ (Idle /\ req'.op = "disconnect")
           => /\ Len(connectedUsers') <= Len(connectedUsers)
              /\ \A i \in 1..Len(connectedUsers') :
                   Holds(connectedUsers, connectedUsers'[i][1], connectedUsers'[i][2]) ]_vars

\* C12 witness: an accepted relay has been answered and both users' mappings
\* are in place.
C12_Witness ==
  /\ req.op = "emit"
  /\ res.status = 200
  /\ Len(connectedUsers) = 2
  /\ \A c \in SocketIds : sockets[c].state = "connected"

\* C13: when every socket that was admitted has been disconnected (its
\* disconnect listener has run), the registry is empty.
C13_AllDisconnectedRegistryEmpty ==
  (\A c \in SocketIds : sockets[c].state \in {"none", "disconnected"})
    => MapSize(connectedUsers) = 0 /\ connectedUsers = <<>>

\* C13 witness: socket 1 was admitted as u1, was relayed ping with obj1 and
\* has been disconnected; no socket is open and the registry is empty.
C13_Witness ==
  /\ sockets[1] = [state |-> "disconnected", userId |-> "u1"]
  /\ received[1] = <<connectionAck("u1"), RelayEvent("ping", "obj1")>>
  /\ \A c \in SocketIds : sockets[c].state \in {"none", "disconnected"}
  /\ connectedUsers = <<>>

\* C14: an admission or a disconnect of a connection of one user leaves the
\* mapping of every other user exactly as it was.
C14_OtherUsersUntouched ==
  [][\A v \in Users :
       ( /\ Idle
         /\ req'.op \in {"handshake", "handshake-aborted", "disconnect"}
         /\ req'.userId # v )
       => ( /\ Has(connectedUsers', v) <=> Has(connectedUsers, v)
            /\ \A id \in SocketIds :
                 Holds(connectedUsers', v, id) <=> Holds(connectedUsers, v, id) )]_vars

\* C14 witness: a connection of one user has been disconnected while another
\* user's connection is open and registered.
C14_Witness ==
  /\ req.op = "disconnect"
  /\ \E c \in SocketIds :
       /\ sockets[c].state = "connected"
       /\ sockets[c].userId # req.userId
       /\ Holds(connectedUsers, sockets[c].userId, c)

\* The 'connection' events a socket has been sent
Acks(c) == SelectSeq(received[c], LAMBDA ev : ev.name = "connection")

\* The socket's handshake passed the middleware's checks.
PassedChecks(c) == sockets[c].state \in {"connected", "disconnected", "aborted"}

\* The socket's connection handler ran.
HandlerRan(c) == sockets[c].state \in {"connected", "disconnected"}

\* Nothing is sent to, and no room holds, a socket that passed no handshake;
\* a 'connection' event is only ever sent to the socket whose handshake has
\* just passed, and a refused handshake changes no room and sends nothing.
AckOnlyAfterChecks ==
  /\ [](\A c \in SocketIds :
          sockets[c].state = "none" => (received[c] = <<>> /\ \A u \in Users : c \notin rooms[u]))
  /\ [][ /\ \A c \in SocketIds :
              Len(Acks(c))' > Len(Acks(c))
                => (Idle /\ PassesHandshake(req') /\ req'.socketId = c)
         /\ (Idle /\ req'.op = "handshake" /\ ~PassesHandshake(req'))
              => (rooms' = rooms /\ received' = received) ]_vars

\* C15: every connection whose handshake passed the checks has been sent
\* exactly one 'connection' acknowledgment, carrying success and its own
\* userId, and is in the room of its userId while it is open; the
\* acknowledgment is sent only after the checks passed, and a refused
\* connection is in no room and is sent nothing.
C15_AdmittedJoinedAndAcknowledged ==
  /\ [](\A c \in SocketIds :
          PassedChecks(c)
            => ( /\ Acks(c) = <<connectionAck(sockets[c].userId)>>
                 /\ sockets[c].state = "connected" => c \in rooms[sockets[c].userId] ))
  /\ AckOnlyAfterChecks

\* What does hold: the same for every connection whose handler ran, and with
\* the acknowledgment as the first event the socket is sent.
AcknowledgedWhenHandlerRan ==
  /\ [](\A c \in SocketIds :
          HandlerRan(c)
            => ( /\ Acks(c) = <<connectionAck(sockets[c].userId)>>
                 /\ Head(received[c]) = connectionAck(sockets[c].userId)
                 /\ sockets[c].state = "connected" => c \in rooms[sockets[c].userId] ))
  /\ AckOnlyAfterChecks

\* C16: an accepted relay for a registered user appends the event to what
\* every open connection admitted under that userId has been sent (the
\* superseded ones too) and sends nothing to any other socket.
C16_RelayReachesWholeChannel ==
  [][( /\ Idle
       /\ ValidRelay(req')
       /\ Has(connectedUsers, req'.userId) )
     => \A c \in SocketIds :
          received'[c] =
            IF sockets[c].state = "connected" /\ sockets[c].userId = req'.userId
            THEN Append(received[c], RelayEvent(req'.eventType, req'.payload))
            ELSE received[c]]_vars

\* C16 witness: two open connections of one user, the superseded one and the
\* registered one, have both been sent the relayed event.
C16_Witness ==
  /\ ValidRelay(req)
  /\ res.status = 200
  /\ sockets[1] = [state |-> "connected", userId |-> req.userId]
  /\ sockets[2] = [state |-> "connected", userId |-> req.userId]
  /\ MapGet(connectedUsers, req.userId) = 2
  /\ received[1] = <<connectionAck(req.userId), RelayEvent(req.eventType, req.payload)>>
  /\ received[2] = <<connectionAck(req.userId), RelayEvent(req.eventType, req.payload)>>

\* C17: whenever a user has an open connection, the registry has an entry
\* for the user, a presence query for the user answers true and a relay to
\* the user is not answered 404.
C17_OpenConnectionIsPresent ==
  \A c \in SocketIds :
    sockets[c].state = "connected"
      => ( /\ Has(connectedUsers, sockets[c].userId)
           /\ CheckOnlineResponse(connectedUsers, "object", sockets[c].userId).isOnline = "true"
           /\ EmitStatus(connectedUsers, SOCKET_KEY, sockets[c].userId, "ping", "obj1") # 404 )

\* C18: every registry entry names a socket that was admitted under the
\* entry's userId and is still open.
C18_EntriesNameOpenConnections ==
  \A i \in 1..Len(connectedUsers) :
    /\ connectedUsers[i][2] \in SocketIds
    /\ sockets[connectedUsers[i][2]].userId = connectedUsers[i][1]
    /\ sockets[connectedUsers[i][2]].state = "connected"

\* One of the three body fields of the relay request is missing or falsy.
FieldMissing(r) == Falsy(r.userId) \/ Falsy(r.eventType) \/ Falsy(r.payload)

LatestDisconnected(userId) ==
  \E c \in SocketIds :
    /\ sockets[c] = [state |-> "disconnected", userId |-> userId]
    /\ \A d \in SocketIds : (d > c /\ sockets[d].state # "none") => sockets[d].userId # userId

====
